---- MODULE Spec2Model ----
(***************************************************************************)
(* A model of Rhino_Exporter/RePort_cmd.py: the RePort export command.     *)
(*                                                                         *)
(* Strings are sequences of one-character strings, so that sanitizing,     *)
(* suffixing and the "label=name" placeholder names are computed character *)
(* by character.  Python's None is the value None below, which is no       *)
(* sequence of characters.  The scene is a function from object ids to     *)
(* object records; ids grow with creation.  ExportSelected is recursive:   *)
(* its activations are the frames of stack.                                *)
(***************************************************************************)
EXTENDS Integers, Sequences, FiniteSets, TLC

VARIABLES
    version,      \* Rhino_version = RhinoApp.Version.Major
    interactive,  \* is_interactive, the argument of RunCommand
    units,        \* int(sc.doc.ActiveDoc.ModelUnitSystem)
    objs,         \* the scene: object id -> [type, name, block, xform, geom]
    sel,          \* the ids of the selected objects
    dirs,         \* the directories under the export root, each the path
                  \* from the root: a sequence of directory names
    name_map,     \* RunCommand's name_map (SpecRename: the map under test)
    userSel,      \* RunCommand's selected = rs.SelectedObjects(True, True)
    scale,        \* RunCommand's scale, [ok, val] as ModelScale returned it
    stack,        \* the activations of ExportSelected, innermost last
    pc,           \* the position of RunCommand
    exc,          \* the exception in flight or escaped, "none" if none
    msgs,         \* what print() has written
    trace,        \* the host calls made so far, in order (history)
    nextId,       \* the id of the next object created
    calls,        \* the number of ExportSelected calls so far (history)
    pre,          \* the scene, selection and directories at Init (history)
    doc,          \* sc.doc.ActiveDoc: [Name, Path], None when never saved
    hostFails,    \* whether the host's export command can report failure
    arg,          \* the argument of the function under test (the functions'
                  \* specifications)
    res           \* what the function under test returned

vars == <<version, interactive, units, objs, sel, dirs, name_map, userSel,
          scale, stack, pc, exc, msgs, trace, nextId, calls, pre, doc,
          hostFails, arg, res>>

-----------------------------------------------------------------------------
(* Bounds of the model. *)

MaxObjs == 2      \* objects in the scene before the run
MaxBatch == 4     \* objects in a batch of SpecRename
MaxUnit == 60     \* SpecScale draws the unit code from -MaxUnit..MaxUnit
MaxStr == 3       \* SpecSafe draws names of up to MaxStr characters
MaxCalls == 8     \* activations of ExportSelected in one run
MaxCoord == 2     \* SpecBasis draws coordinates from -MaxCoord..MaxCoord

-----------------------------------------------------------------------------
(* Strings. *)

None == <<"None">>

Digit(d) ==
    CASE d = 0 -> "0" [] d = 1 -> "1" [] d = 2 -> "2" [] d = 3 -> "3"
      [] d = 4 -> "4" [] d = 5 -> "5" [] d = 6 -> "6" [] d = 7 -> "7"
      [] d = 8 -> "8" [] d = 9 -> "9"

\* str(n) of a non-negative int
RECURSIVE Str(_)
Str(n) == IF n < 10 THEN <<Digit(n)>> ELSE Str(n \div 10) \o <<Digit(n % 10)>>

\* replaces the first old only
ReplaceMutant(name, old, new) ==
    LET at == {i \in 1..Len(name) : name[i] = old}
    IN  IF at = {} THEN name
        ELSE LET i == CHOOSE a \in at : \A b \in at : a <= b
             IN  SubSeq(name, 1, i - 1) \o new \o SubSeq(name, i + 1, Len(name))

\* name.replace(old, new) for a one-character old
RECURSIVE Replace(_, _, _)
Replace(name, old, new) ==
    IF name = <<>> THEN <<>>
    ELSE (IF Head(name) = old THEN new ELSE <<Head(name)>>)
         \o Replace(Tail(name), old, new)

ForbiddenChars == <<"<", ">", ":", "\"", "/", "\\", "|", "?", "*">>

\* for each forbidden character in turn: name = name.replace(c, "")
\* (CHOOSE over a one-element set names an intermediate value)
RECURSIVE StripFrom(_, _)
StripFrom(name, i) ==
    IF i > Len(ForbiddenChars) THEN name
    ELSE CHOOSE r \in {StripFrom(stripped, i + 1) :
                         stripped \in {Replace(name, ForbiddenChars[i], <<>>)}} :
             TRUE

SafeFileName(name) == StripFrom(name, 1)

SafeObjectNameMutant(name) ==
    IF name = None THEN <<>> ELSE SafeFileName(name)

\* if name is None: return ""; then SafeFileName and "=" to "-"
SafeObjectName(name) ==
    IF name = None THEN <<>>
    ELSE CHOOSE r \in {Replace(safe, "=", <<"-">>) :
                         safe \in {SafeFileName(name)}} : TRUE

-----------------------------------------------------------------------------
(* Object types and the export classes. *)

CurveType == 4
SurfaceType == 8
BrepType == 16
lights_export == 256
meshes_export == 32
detail_export == 8 + 16 + 262144 + 1073741824
blocks_export == 4096

RECURSIVE BitAnd(_, _)
BitAnd(a, b) ==
    IF a = 0 \/ b = 0 THEN 0
    ELSE 2 * BitAnd(a \div 2, b \div 2)
         + (IF a % 2 = 1 /\ b % 2 = 1 THEN 1 ELSE 0)

\* The four masks have no bit in common, so | is +.
export_select == lights_export + meshes_export + detail_export + blocks_export

IsClassMutant(o, mask) == o.type = mask

IsClass(o, mask) == BitAnd(o.type, mask) # 0

-----------------------------------------------------------------------------
(* Floats, as n/d * 10^e. *)

Float(n, d, e) == [n |-> n, d |-> d, e |-> e]
One == Float(1, 1, 0)
NoScale == [ok |-> FALSE, val |-> Float(0, 1, 0)]

MulInt(f, k) == [f EXCEPT !.n = @ * k]
DivInt(f, k) == [f EXCEPT !.d = @ * k]
MulPow10(f, p) == [f EXCEPT !.e = @ + p]
Positive(f) == f.n > 0 /\ f.d > 0
\* equal to 1.0 exactly: n/d = 10^(-e) with e = 0
IsOne(f) == f.e = 0 /\ f.n = f.d /\ f.d # 0

\* meters, on the line of unit 12, is no name of the module: NameError
ScaleRaises(u) == u = 12

ModelScale(u) ==
    LET meter == One
        inch == DivInt(MulInt(MulPow10(meter, -4), 3048), 12)
        val ==
          CASE u = 0 -> One
            [] u = 1 -> MulPow10(meter, -6)
            [] u = 2 -> MulPow10(meter, -3)
            [] u = 3 -> MulPow10(meter, -2)
            [] u = 4 -> meter
            [] u = 5 -> MulPow10(meter, 3)
            [] u = 6 -> MulPow10(inch, -6)
            [] u = 7 -> MulPow10(inch, -3)
            [] u = 8 -> inch
            [] u = 9 -> MulInt(inch, 12)
            [] u = 10 -> MulInt(MulInt(inch, 12), 5280)
            [] u = 11 -> One
            [] u = 13 -> MulPow10(meter, -9)
            [] u = 14 -> MulPow10(meter, -1)
            [] u = 15 -> MulPow10(meter, 1)
            [] u = 16 -> MulPow10(meter, 2)
            [] u = 17 -> MulPow10(meter, 6)
            [] u = 18 -> MulPow10(meter, 9)
            [] u = 19 -> MulInt(MulInt(inch, 12), 3)
            [] u = 20 -> DivInt(inch, 72)
            [] u = 21 -> DivInt(inch, 6)
            [] u = 22 -> MulInt(meter, 1852)
            \* 149597870700
            [] u = 23 -> MulPow10(MulInt(meter, 1495978707), 2)
            \* 9460730472580800, to nine digits
            [] u = 24 -> MulPow10(MulInt(meter, 946073047), 7)
            \* 149597870700 * 648000 / pi, to nine digits
            [] u = 25 -> MulPow10(MulInt(meter, 308567758), 8)
            [] OTHER -> One
    IN  IF ScaleRaises(u) THEN [ok |-> FALSE, val |-> Float(0, 1, 0)]
        ELSE [ok |-> TRUE, val |-> val]

-----------------------------------------------------------------------------
(* The host's scene, as the code uses it. *)

NoGeom == [of |-> 0, by |-> Float(0, 1, 0)]

Obj(type, name, block, xform) ==
    [type |-> type, name |-> name, block |-> block, xform |-> xform,
     geom |-> NoGeom,
     light |-> IF type = lights_export THEN "point" ELSE "none"]

\* The kinds of light the host tells apart (rs.IsPointLight, ...), and any
\* other kind of light.
LightKinds == {"point", "directional", "spot", "rectangular", "linear",
               "other"}

Light(kind) == [Obj(lights_export, None, None, 0) EXCEPT !.light = kind]

EmptyMap == [k \in {} |-> None]

Sorted(s) ==
    [i \in 1..Cardinality(s) |->
        CHOOSE x \in s : Cardinality({y \in s : y < x}) = i - 1]

ToSet(q) == {q[i] : i \in 1..Len(q)}

\* rs.SelectedObjects(True, False): the selected objects, in creation order
SelectedObjects(s) == Sorted(s)

\* rs.ObjectsByType(geometry_type=export_select, select=True, state=0)
SelectExport(ob, s) == s \cup {id \in DOMAIN ob : IsClass(ob[id], export_select)}

\* rs.ObjectName(object): the name, None when the object has none
ObjectName(ob, id) == ob[id].name

\* rs.ObjectName(object, name): an object given the empty name has no name
\* (line 121: writing "" "restores name is None state")
SetObjectName(ob, id, name) ==
    [ob EXCEPT ![id].name = IF name = <<>> THEN None ELSE name]

DeleteObjectsMutant(ob, ids) == ob

\* rs.DeleteObjects(ids)
DeleteObjects(ob, ids) == [id \in DOMAIN ob \ ids |-> ob[id]]

-----------------------------------------------------------------------------
(* UniqueRename and RevertRename. *)

DefaultName(o) ==
    IF IsClass(o, lights_export) THEN <<"L", "i", "g", "h", "t">>
    ELSE <<"O", "b", "j", "e", "c", "t">>

Suffixed(name, suffix) == name \o <<"_">> \o Str(suffix)

FirstSuffixMutant(m, name, suffix) == suffix

\* while new_name + "_" + str(suffix) in name_map: suffix += 1
RECURSIVE FirstSuffix(_, _, _)
FirstSuffix(m, name, suffix) ==
    IF Suffixed(name, suffix) \in DOMAIN m
    THEN FirstSuffix(m, name, suffix + 1)
    ELSE suffix

\* new_name of lines 96..104: the safe name, or the default for an empty one
BaseName(o) ==
    LET safe == SafeObjectName(o.name)
    IN  IF Len(safe) = 0 THEN DefaultName(o) ELSE safe

StartSuffixMutant(m) == 0

\* suffix = len(name_map), line 106
StartSuffix(m) == Cardinality(DOMAIN m)

\* Lines 96..109 for an object o under name_map m: the name before the
\* suffix, whether the condition of line 105 holds, the suffix found and
\* the name given.
Renaming(m, o) ==
    LET base == BaseName(o)
        suffixed == o.name = None \/ Len(o.name) = 0 \/ base \in DOMAIN m
        suffix == IF suffixed THEN FirstSuffix(m, base, StartSuffix(m)) ELSE 0
    IN  [base |-> base, suffixed |-> suffixed, suffix |-> suffix,
         name |-> IF suffixed THEN Suffixed(base, suffix) ELSE base]

\* The name UniqueRename gives an object named old_name, under name_map m.
NewName(m, o) == Renaming(m, o).name

\* One pass of the loop of UniqueRename, on a state [objs, name_map, log];
\* log records each pass: the name before the suffix, whether a suffix was
\* appended and which, and the keys of name_map before the pass.
RenameOne(st, id) ==
    LET m == st.name_map
        old_name == ObjectName(st.objs, id)
        r == Renaming(m, st.objs[id])
        new_name == r.name
    IN  [objs |-> SetObjectName(st.objs, id, new_name),
         name_map |-> [k \in DOMAIN m \cup {new_name} |->
                          IF k = new_name THEN old_name ELSE m[k]],
         log |-> Append(st.log,
                   [op |-> "rename", id |-> id, old |-> old_name,
                    base |-> r.base, suffixed |-> r.suffixed,
                    suffix |-> r.suffix, keys |-> DOMAIN m,
                    name |-> new_name])]

RECURSIVE RenameLoop(_, _, _)
RenameLoop(st, selected, i) ==
    IF i > Len(selected) THEN st
    ELSE CHOOSE r \in {RenameLoop(next, selected, i + 1) :
                         next \in {RenameOne(st, selected[i])}} : TRUE

\* UniqueRename(name_map) on the selection s; the first k objects when the
\* host fails after k of them.
UniqueRename(ob, m, s, k) ==
    CHOOSE r \in {RenameLoop([objs |-> ob, name_map |-> m, log |-> <<>>],
                             selected, 1) :
                     selected \in {SubSeq(SelectedObjects(s), 1, k)}} : TRUE

RevertedNameMutant(old_name) == old_name

\* if old_name is None: old_name = ""
RevertedName(old_name) == IF old_name = None THEN <<>> ELSE old_name

RevertOne(st, id) ==
    LET new_name == ObjectName(st.objs, id)
    IN  IF new_name \in DOMAIN st.name_map
        THEN LET written == RevertedName(st.name_map[new_name])
             IN  [objs |-> IF written = None
                           \* rs.ObjectName(object, None) reads the name
                           THEN st.objs
                           ELSE SetObjectName(st.objs, id, written),
                  name_map |-> [k \in DOMAIN st.name_map \ {new_name} |->
                                   st.name_map[k]]]
        ELSE st

\* What one call of UniqueRename did, for the objects that activation scope
\* of ExportSelected is to export: the name each renamed object has now.
Renamed(scope, st) ==
    [op |-> "renamed", scope |-> scope,
     names |-> [id \in {st.log[n].id : n \in 1..Len(st.log)} |->
                   st.objs[id].name]]

RECURSIVE RevertLoop(_, _, _)
RevertLoop(st, selected, i) ==
    IF i > Len(selected) THEN st
    ELSE CHOOSE r \in {RevertLoop(next, selected, i + 1) :
                         next \in {RevertOne(st, selected[i])}} : TRUE

RevertRename(ob, m, s) ==
    CHOOSE r \in {RevertLoop([objs |-> ob, name_map |-> m], selected, 1) :
                     selected \in {SelectedObjects(s)}} : TRUE


-----------------------------------------------------------------------------
(* SpecScale: ModelScale on every unit-system code of a range. *)

SupportedMutant(v) == v >= 5

\* Rhino_version == 7 or Rhino_version == 6 or Rhino_version == 5
Supported(v) == v = 7 \/ v = 6 \/ v = 5

NoPre == [objs |-> <<>>, sel |-> {}, dirs |-> {}]

\* The active document: the name of its file and its path, or None twice
\* for a document that was never saved.
DocName == <<"d", "o", "c">>
DocFile == DocName \o <<".", "3", "d", "m">>
SavedDoc == [Name |-> DocFile, Path |-> <<"/">> \o DocFile]
UnsavedDoc == [Name |-> None, Path |-> None]

\* s[:-4]; None has no slice (TypeError)
Subscriptable(s) == s # None
Stem(s) == SubSeq(s, 1, Len(s) - 4)

SC_Init ==
    /\ units \in (0 - MaxUnit)..MaxUnit
    /\ scale = NoScale
    /\ pc = "sc_start"
    /\ exc = "none"
    /\ version = 7 /\ interactive = FALSE
    /\ objs = <<>> /\ sel = {} /\ dirs = {} /\ name_map = EmptyMap
    /\ userSel = {} /\ stack = <<>> /\ msgs = <<>> /\ trace = <<>>
    /\ nextId = 1 /\ calls = 0 /\ pre = NoPre
    /\ doc = SavedDoc /\ hostFails = FALSE /\ arg = None /\ res = None

SC_ModelScale ==
    /\ pc = "sc_start"
    /\ scale' = ModelScale(units)
    /\ exc' = IF scale'.ok THEN "none" ELSE "NameError"
    /\ pc' = "sc_done"
    /\ UNCHANGED <<doc, hostFails, arg, res,
                   version, interactive, units, objs, sel, dirs, name_map,
                   userSel, stack, msgs, trace, nextId, calls, pre>>

SC_Next == SC_ModelScale

SpecScale == SC_Init /\ [][SC_Next]_vars

-----------------------------------------------------------------------------
(* SpecBasis: BasisFromDirection on every non-zero direction with integer  *)
(* coordinates of a range.  A vector [v, n2] is v divided by the square    *)
(* root of n2, so that unit vectors are exact: comparisons of lengths are  *)
(* comparisons of squares.                                                 *)

Norm2(v) == v[1] * v[1] + v[2] * v[2] + v[3] * v[3]

Vec(v) == [v |-> v, n2 |-> 1]

\* rs.VectorUnitize(v) of the vector v / sqrt(1)
VectorUnitize(v) == [v |-> v, n2 |-> Norm2(v)]

\* UnitVector(b), b in 0..2
UnitVector(b) == [i \in 1..3 |-> IF i = b + 1 THEN 1 ELSE 0]

UnitBasis == <<Vec(UnitVector(0)), Vec(UnitVector(1)), Vec(UnitVector(2))>>

\* -0.5 < inner <= 0.5 for inner = c / sqrt(n2), the dot product of
\* UnitVector(b) and the unit vector of coordinate c at b
InHalfOpen(c, n2) == IF c >= 0 THEN 4 * c * c <= n2 ELSE 4 * c * c < n2

Cross(a, b) ==
    <<a[2] * b[3] - a[3] * b[2], a[3] * b[1] - a[1] * b[3],
      a[1] * b[2] - a[2] * b[1]>>

\* for b in range(3): the first b that meets the condition, 3 if none does
RECURSIVE FirstAxis(_, _)
FirstAxis(b2, b) ==
    IF b > 2 THEN 3
    ELSE IF InHalfOpen(b2.v[b + 1], b2.n2) THEN b
    ELSE FirstAxis(b2, b + 1)

\* b0 - b2 * inner has the direction of n2 * b0 - c * v, and b2 x b0 is a
\* unit vector with the direction of v x (n2 * b0 - c * v)
BasisFromDirection(direction) ==
    LET b2 == VectorUnitize(direction)
        b == FirstAxis(b2, 0)
    IN  IF b <= 2
        THEN LET c == b2.v[b + 1]
                 w == [i \in 1..3 |-> b2.n2 * UnitVector(b)[i] - c * b2.v[i]]
                 b0 == VectorUnitize(w)
                 b1 == VectorUnitize(Cross(b2.v, w))
             IN  [found |-> TRUE, axis |-> b, basis |-> <<b0, b1, b2>>]
        ELSE [found |-> FALSE, axis |-> b, basis |-> UnitBasis]

Directions ==
    {d \in [1..3 -> (0 - MaxCoord)..MaxCoord] : Norm2(d) # 0}

BF_Init ==
    /\ arg \in Directions
    /\ res = None
    /\ pc = "bf_start"
    /\ exc = "none"
    /\ version = 7 /\ interactive = FALSE /\ units = 4
    /\ objs = <<>> /\ sel = {} /\ dirs = {} /\ name_map = EmptyMap
    /\ userSel = {} /\ scale = NoScale /\ stack = <<>> /\ msgs = <<>>
    /\ trace = <<>> /\ nextId = 1 /\ calls = 0 /\ pre = NoPre
    /\ doc = SavedDoc /\ hostFails = FALSE

BF_Apply ==
    /\ pc = "bf_start"
    /\ res' = BasisFromDirection(arg)
    /\ pc' = "bf_done"
    /\ UNCHANGED <<doc, hostFails, arg,
                   version, interactive, units, objs, sel, dirs, name_map,
                   userSel, scale, stack, exc, msgs, trace, nextId, calls,
                   pre>>

BF_Next == BF_Apply

SpecBasis == BF_Init /\ [][BF_Next]_vars

-----------------------------------------------------------------------------
(* SpecSafe: SafeFileName and SafeObjectName on every name of up to MaxStr *)
(* characters of an alphabet with the unsafe characters, and SafeFileName  *)
(* again on what it returned.                                              *)

SafeAlphabet == ToSet(ForbiddenChars) \cup {"=", "-", "A"}

SafeArgs == UNION {[1..n -> SafeAlphabet] : n \in 0..MaxStr} \cup {None}

SN_Init ==
    /\ arg \in SafeArgs
    /\ res = None
    /\ pc = "sn_start"
    /\ exc = "none"
    /\ version = 7 /\ interactive = FALSE /\ units = 4
    /\ objs = <<>> /\ sel = {} /\ dirs = {} /\ name_map = EmptyMap
    /\ userSel = {} /\ scale = NoScale /\ stack = <<>> /\ msgs = <<>>
    /\ trace = <<>> /\ nextId = 1 /\ calls = 0 /\ pre = NoPre
    /\ doc = SavedDoc /\ hostFails = FALSE

\* SafeObjectName(arg), and SafeFileName(arg) of a string
SN_Apply ==
    /\ pc = "sn_start"
    /\ res' = [file |-> IF arg = None THEN None ELSE SafeFileName(arg),
               object |-> SafeObjectName(arg),
               again |-> None]
    /\ pc' = "sn_once"
    /\ UNCHANGED <<doc, hostFails, arg,
                   version, interactive, units, objs, sel, dirs, name_map,
                   userSel, scale, stack, exc, msgs, trace, nextId, calls,
                   pre>>

\* SafeFileName of what SafeFileName returned
SN_Again ==
    /\ pc = "sn_once"
    /\ res.file # None
    /\ res' = [res EXCEPT !.again = SafeFileName(res.file)]
    /\ pc' = "sn_twice"
    /\ UNCHANGED <<doc, hostFails, arg,
                   version, interactive, units, objs, sel, dirs, name_map,
                   userSel, scale, stack, exc, msgs, trace, nextId, calls,
                   pre>>

SN_Next == SN_Apply \/ SN_Again

SpecSafe == SN_Init /\ [][SN_Next]_vars

-----------------------------------------------------------------------------
(* SpecRename: UniqueRename, then RevertRename with the same map, on a     *)
(* batch of selected objects.                                              *)

ObjectStr == <<"O", "b", "j", "e", "c", "t">>
LightStr == <<"L", "i", "g", "h", "t">>

\* The names the objects of a batch were given; None: never named.
RenameNames ==
    { None, <<>>, <<"A">>, <<"A", "_", "1">>, <<"A", "=">>, <<"A", "-">>,
      <<"<">>, <<"=">>, ObjectStr \o <<"_", "1">>, ObjectStr \o <<"_", "2">> }

Named(o, name) == IF name = None THEN o ELSE SetObjectName(<<o>>, 1, name)[1]

RenameKinds ==
    { Named(Obj(meshes_export, None, None, 0), n) : n \in RenameNames }
    \cup { Named(Obj(lights_export, None, None, 0), n) :
             n \in {None, LightStr \o <<"_", "1">>} }

RN_Init ==
    /\ \E n \in 1..MaxBatch : objs \in [1..n -> RenameKinds]
    /\ sel = DOMAIN objs
    /\ name_map = EmptyMap
    /\ pc = "rn_start"
    /\ pre = [objs |-> objs, sel |-> sel, dirs |-> {}]
    /\ nextId = Len(objs) + 1
    /\ version = 7 /\ interactive = FALSE /\ units = 4 /\ dirs = {}
    /\ userSel = {} /\ scale = NoScale /\ stack = <<>> /\ exc = "none"
    /\ msgs = <<>> /\ trace = <<>> /\ calls = 0
    /\ doc = SavedDoc /\ hostFails = FALSE /\ arg = None /\ res = None

RN_UniqueRename ==
    /\ pc = "rn_start"
    /\ \E st \in {UniqueRename(objs, name_map, sel, Cardinality(sel))} :
          objs' = st.objs /\ name_map' = st.name_map /\ trace' = st.log
    /\ pc' = "rn_renamed"
    /\ UNCHANGED <<doc, hostFails, arg, res,
                   version, interactive, units, sel, dirs, userSel, scale,
                   stack, exc, msgs, nextId, calls, pre>>

RN_RevertRename ==
    /\ pc = "rn_renamed"
    /\ \E st \in {RevertRename(objs, name_map, sel)} :
          objs' = st.objs /\ name_map' = st.name_map
    /\ pc' = "rn_reverted"
    /\ UNCHANGED <<doc, hostFails, arg, res,
                   version, interactive, units, sel, dirs, userSel, scale,
                   stack, exc, msgs, trace, nextId, calls, pre>>

RN_Next == RN_UniqueRename \/ RN_RevertRename

SpecRename == RN_Init /\ [][RN_Next]_vars

-----------------------------------------------------------------------------
(* Spec: one run of RunCommand on a scene.                                 *)

Versions == {4, 5, 6, 7, 8}
DocUnits == {8, 12}

\* The block definitions of the document: B holds a mesh and an instance of
\* N-, N- holds a surface, N= holds a curve only.  N= and N- have the same
\* safe name.  S holds a mesh and an instance of S itself; P holds an
\* instance of Q, and Q a curve and an instance of P.
NameB == <<"B">>
NameN == <<"N", "-">>
NameE == <<"N", "=">>
NameS == <<"S">>
NameP == <<"P">>
NameQ == <<"Q">>

BlockDef(block) ==
    CASE block = NameB -> << Obj(meshes_export, None, None, 0),
                             Obj(blocks_export, None, NameN, 11) >>
      [] block = NameN -> << Obj(SurfaceType, <<"A">>, None, 0) >>
      [] block = NameE -> << Obj(CurveType, None, None, 0) >>
      [] block = NameS -> << Obj(meshes_export, <<"A">>, None, 0),
                             Obj(blocks_export, <<"A">>, NameS, 12) >>
      [] block = NameP -> << Obj(blocks_export, None, NameQ, 13) >>
      [] block = NameQ -> << Obj(CurveType, None, None, 0),
                             Obj(blocks_export, None, NameP, 14) >>

\* What an object of the scene can be, before the run.
SceneKinds ==
    { Obj(lights_export, None, None, 0),
      Obj(meshes_export, <<"A">>, None, 0),
      Obj(BrepType, <<"A">>, None, 0),
      Obj(CurveType, None, None, 0),
      Obj(blocks_export, None, NameB, 0),
      Obj(blocks_export, <<"A", "=">>, NameN, 0),
      Obj(blocks_export, None, NameE, 0) }

\* Paths from the export root: Root is the root itself, and
\* os.path.join(path, name) of a directory and a name ("" joins to path/).
Root == <<>>
Join(path, name) == IF name = <<>> THEN path ELSE Append(path, name)

\* Directories a folder chosen by the user may already hold.
StaleDirs == { Join(Root, SafeObjectName(NameN)) }

Init ==
    /\ version \in Versions
    /\ interactive \in BOOLEAN
    /\ units \in DocUnits
    /\ \E n \in 0..MaxObjs : \E k \in [1..n -> SceneKinds] :
          objs = [i \in 1..n |-> [k[i] EXCEPT !.xform = i]]
    \* the user has selected the first objects of the scene, or none
    /\ \E m \in 0..Len(objs) : sel = 1..m
    /\ dirs \in SUBSET StaleDirs
    /\ name_map = EmptyMap
    /\ userSel = {}
    /\ scale = NoScale
    /\ stack = <<>>
    /\ pc = "start"
    /\ exc = "none"
    /\ msgs = <<>>
    /\ trace = <<>>
    /\ nextId = Len(objs) + 1
    /\ calls = 0
    /\ pre = [objs |-> objs, sel |-> sel, dirs |-> dirs]
    \* a document never saved has no folder of an earlier export
    /\ doc \in {SavedDoc, UnsavedDoc}
    /\ doc = UnsavedDoc => dirs = {}
    /\ hostFails = FALSE
    /\ arg = None
    /\ res = None

(* RunCommand, lines 600..615 *)

Preamble(inter) == IF inter THEN <<"RePort">> ELSE <<>>

RC_Unsupported ==
    /\ pc = "start"
    /\ ~Supported(version)
    /\ msgs' = msgs \o Preamble(interactive) \o <<"unsupported version -> abort">>
    /\ pc' = "done"
    /\ UNCHANGED <<doc, hostFails, arg, res,
                   version, interactive, units, objs, sel, dirs, name_map,
                   userSel, scale, stack, exc, trace, nextId, calls, pre>>

\* GetExportPath: the directories of the export root it returns; the folder
\* next to the document is removed and made anew, a chosen folder is kept.
GetExportPath(is_interactive, d) == IF is_interactive THEN d ELSE {}

\* GetExportPath, lines 577..578: the slice of None raises, outside of the
\* try statement of RunCommand
RC_Unsaved ==
    /\ pc = "start"
    /\ Supported(version)
    /\ ~(Subscriptable(doc.Name) /\ Subscriptable(doc.Path))
    /\ msgs' = msgs \o Preamble(interactive)
    /\ exc' = "TypeError"
    /\ pc' = "done"
    /\ UNCHANGED <<doc, hostFails, arg, res,
                   version, interactive, units, objs, sel, dirs, name_map,
                   userSel, scale, stack, trace, nextId, calls, pre>>

\* rs.BrowseForFolder returned None
RC_Cancelled ==
    /\ pc = "start"
    /\ Supported(version)
    /\ Subscriptable(doc.Name) /\ Subscriptable(doc.Path)
    /\ interactive
    /\ msgs' = msgs \o Preamble(interactive) \o <<"no export location -> abort">>
    /\ pc' = "done"
    /\ UNCHANGED <<doc, hostFails, arg, res,
                   version, interactive, units, objs, sel, dirs, name_map,
                   userSel, scale, stack, exc, trace, nextId, calls, pre>>

RC_Begin ==
    /\ pc = "start"
    /\ Supported(version)
    /\ Subscriptable(doc.Name) /\ Subscriptable(doc.Path)
    /\ msgs' = msgs \o Preamble(interactive)
    /\ dirs' = GetExportPath(interactive, dirs)
    /\ name_map' = EmptyMap
    /\ userSel' = sel
    /\ pc' = "rename"
    /\ UNCHANGED <<doc, hostFails, arg, res,
                   version, interactive, units, objs, sel, scale, stack, exc,
                   trace, nextId, calls, pre>>

(* RunCommand, lines 616..621: SelectExport and UniqueRename; the host may *)
(* fail after any number of objects.                                       *)
RC_Rename ==
    /\ pc = "rename"
    /\ sel' = SelectExport(objs, sel)
    /\ \E k \in 0..Cardinality(sel') :
          \E st \in {UniqueRename(objs, name_map, sel', k)} :
              /\ objs' = st.objs
              /\ name_map' = st.name_map
              /\ trace' = Append(trace, Renamed(calls + 1, st))
              /\ IF k = Cardinality(sel')
                 THEN pc' = "scale" /\ exc' = exc
                 ELSE pc' = "finally" /\ exc' = "HostError"
    /\ UNCHANGED <<doc, hostFails, arg, res,
                   version, interactive, units, dirs, userSel, scale, stack,
                   msgs, nextId, calls, pre>>

\* A new activation of ExportSelected(scale, path, name) for the definition
\* def (None: the scene).
Frame(scope, def, path, name, s) ==
    [scope |-> scope, def |-> def, path |-> path, name |-> name, pc |-> "enter",
     sel0 |-> s, selected |-> <<>>, export_exists |-> FALSE,
     placeholders |-> <<>>, i |-> 1, parts |-> {}, block_path |-> <<>>]

(* RunCommand, lines 622..623 *)
RC_Scale ==
    /\ pc = "scale"
    /\ scale' = ModelScale(units)
    /\ IF scale'.ok
       THEN /\ stack' = <<Frame(calls + 1, None, Root, <<Stem(doc.Name)>>, sel)>>
            /\ calls' = calls + 1
            /\ pc' = "export"
            /\ exc' = exc
       ELSE /\ pc' = "finally"
            /\ exc' = "NameError"
            /\ UNCHANGED <<stack, calls>>
    /\ UNCHANGED <<doc, hostFails, arg, res,
                   version, interactive, units, objs, sel, dirs, name_map,
                   userSel, msgs, trace, nextId, pre>>

(* ExportSelected, lines 477..573 *)

Top == stack[Len(stack)]
SetTop(f) == [stack EXCEPT ![Len(stack)] = f]

Snapshot(ob, ids) == [id \in ids |-> ob[id]]

AddObjects(ob, first, news) ==
    [id \in DOMAIN ob \cup (first..(first + Len(news) - 1)) |->
        IF id \in DOMAIN ob THEN ob[id] ELSE news[id - first + 1]]

\* tests the type against all the classes
OfClassMutant(f, ob, mask) ==
    SelectSeq(f.selected, LAMBDA id : IsClass(ob[id], export_select))

\* for object in selected: if rs.ObjectType(object) & mask
OfClass(f, ob, mask) == SelectSeq(f.selected, LAMBDA id : IsClass(ob[id], mask))

SaveSuffix(v) == <<".3dm_">> \o Str(v) \o <<".fbx">>

\* What rs.Command does with the export command: it returns True, it
\* returns False (the command failed), or the host raises.
Outcomes == IF hostFails THEN {"ok", "false", "raise"} ELSE {"ok", "raise"}

\* The host call of ExportModel(path, name + kind, detail) in activation f,
\* with what is selected when it is made; ok is what ExportModel returns.
ExportModel(f, kind, detail, ob, s, outcome) ==
    [op |-> "export", scope |-> f.scope, def |-> f.def,
     file |-> [path |-> f.path, name |-> f.name, kind |-> kind,
               suffix |-> SaveSuffix(version)],
     detail |-> detail, sel |-> Snapshot(ob, s),
     scopeSel |-> Snapshot(ob, ToSet(f.selected)),
     raised |-> outcome = "raise", ok |-> outcome = "ok"]

PointLight == <<"P", "o", "i", "n", "t", "L", "i", "g", "h", "t">>

UnknownLight == <<"U", "n", "k", "n", "o", "w", "n", "L", "i", "g", "h", "t">>
DirectionalLight ==
    <<"D", "i", "r", "e", "c", "t", "i", "o", "n", "a", "l",
      "L", "i", "g", "h", "t">>
SpotLight == <<"S", "p", "o", "t", "L", "i", "g", "h", "t">>
RectangularLight ==
    <<"R", "e", "c", "t", "a", "n", "g", "u", "l", "a", "r",
      "L", "i", "g", "h", "t">>
LinearLight == <<"L", "i", "n", "e", "a", "r", "L", "i", "g", "h", "t">>

\* lightType of lines 409..450: each test that holds overwrites it
LightType(o) ==
    LET t0 == UnknownLight
        t1 == IF o.light = "point" THEN PointLight ELSE t0
        t2 == IF o.light = "directional" THEN DirectionalLight ELSE t1
        t3 == IF o.light = "spot" THEN SpotLight ELSE t2
        t4 == IF o.light = "rectangular" THEN RectangularLight ELSE t3
    IN  IF o.light = "linear" THEN LinearLight ELSE t4

\* The placeholder mesh of a light: its name and what its vertices encode.
LightLocation(o, sc) ==
    [type |-> meshes_export, name |-> LightType(o) \o <<"=">> \o o.name,
     block |-> None, xform |-> 0, geom |-> [of |-> o.xform, by |-> sc],
     light |-> "none"]

BlockLocationMutant(o, sc) ==
    [type |-> meshes_export,
     name |-> SafeObjectName(o.block) \o <<"=">> \o o.name,
     block |-> None, xform |-> 0, geom |-> [of |-> 0, by |-> sc],
     light |-> "none"]

\* The placeholder mesh of a block instance.
BlockLocation(o, sc) ==
    [type |-> meshes_export,
     name |-> SafeObjectName(o.block) \o <<"=">> \o o.name,
     block |-> None, xform |-> 0, geom |-> [of |-> o.xform, by |-> sc],
     light |-> "none"]

ExportedMutant(f) == f

\* export_exists = True, lines 498, 508, 520 and 569
Exported(f) == [f EXCEPT !.export_exists = TRUE]

\* An exception leaves every activation of ExportSelected.
Raise(kind) == exc' = kind /\ stack' = <<>> /\ pc' = "finally"

(* lines 480..482 *)
ES_Enter ==
    /\ pc = "export" /\ Top.pc = "enter"
    /\ stack' = SetTop([Top EXCEPT !.selected = SelectedObjects(sel),
                                   !.pc = "lights"])
    /\ sel' = {}
    /\ UNCHANGED <<doc, hostFails, arg, res,
                   version, interactive, units, objs, dirs, name_map, userSel,
                   scale, pc, exc, msgs, trace, nextId, calls, pre>>

(* lines 487..499 *)
ES_Lights ==
    /\ pc = "export" /\ Top.pc = "lights"
    /\ LET f == Top
           lights == OfClass(f, objs, lights_export)
           made == [j \in 1..Len(lights) |->
                       LightLocation(objs[lights[j]], scale.val)]
           ob1 == AddObjects(objs, nextId, made)
           phs == nextId..(nextId + Len(lights) - 1)
           s1 == sel \cup ToSet(lights) \cup phs
           events == [j \in 1..Len(lights) |->
                         [op |-> "light", scope |-> f.scope, def |-> f.def,
                          inst |-> lights[j], ph |-> nextId + j - 1,
                          name |-> made[j].name]]
       IN  /\ nextId' = nextId + Len(lights)
           /\ IF s1 # {}
              THEN \E outcome \in Outcomes :
                     /\ trace' = Append(trace \o events,
                                   ExportModel(f, ".lights", 0, ob1, s1, outcome))
                     /\ IF outcome = "raise"
                        THEN objs' = ob1 /\ sel' = s1 /\ Raise("HostError")
                        ELSE /\ objs' = DeleteObjects(ob1, phs)
                             /\ sel' = {}
                             /\ stack' = SetTop(Exported([f EXCEPT !.pc = "meshes"]))
                             /\ UNCHANGED <<pc, exc>>
              ELSE /\ stack' = SetTop([f EXCEPT !.pc = "meshes"])
                   /\ sel' = {}
                   /\ UNCHANGED <<objs, trace, pc, exc>>
    /\ UNCHANGED <<doc, hostFails, arg, res,
                   version, interactive, units, dirs, name_map, userSel,
                   scale, msgs, calls, pre>>

(* lines 502..509 *)
ES_Meshes ==
    /\ pc = "export" /\ Top.pc = "meshes"
    /\ LET f == Top
           s1 == sel \cup ToSet(OfClass(f, objs, meshes_export))
       IN  IF s1 # {}
           THEN \E outcome \in Outcomes :
                  /\ trace' = Append(trace,
                                ExportModel(f, ".meshes", 0, objs, s1, outcome))
                  /\ IF outcome = "raise"
                     THEN sel' = s1 /\ Raise("HostError")
                     ELSE /\ sel' = {}
                          /\ stack' = SetTop(Exported([f EXCEPT !.pc = "detail"]))
                          /\ UNCHANGED <<pc, exc>>
           ELSE /\ stack' = SetTop([f EXCEPT !.pc = "detail"])
                /\ sel' = {}
                /\ UNCHANGED <<trace, pc, exc>>
    /\ UNCHANGED <<doc, hostFails, arg, res,
                   version, interactive, units, objs, dirs, name_map, userSel,
                   scale, msgs, nextId, calls, pre>>

DetailKindsMutant == <<".meshes0", ".meshes2", ".meshes1">>

\* the files of lines 517..519, in this order
DetailKinds == <<".meshes0", ".meshes1", ".meshes2">>

(* lines 512..521: three exports; the host may raise in any of them, and *)
(* any of them may return False                                          *)
ES_Detail ==
    /\ pc = "export" /\ Top.pc = "detail"
    /\ LET f == Top
           s1 == sel \cup ToSet(OfClass(f, objs, detail_export))
           calls3(n, raised, out) ==
               [d \in 1..n |-> ExportModel(f, DetailKinds[d], d - 1, objs, s1,
                                  IF raised /\ d = n THEN "raise" ELSE out[d])]
       IN  IF s1 # {}
           THEN \E n \in 1..4 : \E out \in [1..3 -> Outcomes \ {"raise"}] :
                  IF n <= 3
                  THEN /\ \A d \in n..3 : out[d] = "ok"
                       /\ trace' = trace \o calls3(n, TRUE, out)
                       /\ sel' = s1
                       /\ Raise("HostError")
                  ELSE /\ trace' = trace \o calls3(3, FALSE, out)
                       /\ sel' = {}
                       /\ stack' = SetTop(Exported([f EXCEPT !.pc = "blocks"]))
                       /\ UNCHANGED <<pc, exc>>
           ELSE /\ stack' = SetTop([f EXCEPT !.pc = "blocks"])
                /\ sel' = {}
                /\ UNCHANGED <<trace, pc, exc>>
    /\ UNCHANGED <<doc, hostFails, arg, res,
                   version, interactive, units, objs, dirs, name_map, userSel,
                   scale, msgs, nextId, calls, pre>>

MkdirOkMutant(d, block_path) == block_path # Root

\* os.mkdir(block_path) makes the directory: it is not there yet (the empty
\* name joins to path itself, which is there)
MkdirOk(d, block_path) == block_path # Root /\ block_path \notin d

ChildPathMutant(path, block_path) == block_path

\* the path argument of the recursive call of line 556: path itself
ChildPath(path, block_path) == path

\* The instance of the loop's turn, and its placeholder appended (line 560).
WithPlaceholder(f, ob, object, next) ==
    LET placeholder == BlockLocation(ob[object], scale.val)
    IN  [objs |-> AddObjects(ob, next, <<placeholder>>),
         frame |-> [f EXCEPT !.placeholders = Append(@, next), !.i = @ + 1,
                             !.pc = "blocks"],
         event |-> [op |-> "place", scope |-> f.scope,
                    def |-> ob[object].block, inst |-> object, ph |-> next,
                    name |-> placeholder.name]]

(* lines 527..556: one turn of the loop over the block instances, up to    *)
(* the recursive call when the block is not done                           *)
ES_Block ==
    /\ pc = "export" /\ Top.pc = "blocks"
    /\ Top.i <= Len(OfClass(Top, objs, blocks_export))
    /\ \E f \in {Top} :
       \E object \in {OfClass(f, objs, blocks_export)[f.i]} :
       \E block \in {objs[object].block} :
       \E block_name \in {SafeObjectName(block)} :
       \E block_path \in {Join(f.path, block_name)} :
           IF MkdirOk(dirs, block_path)
           THEN \E instance_parts \in {BlockDef(block)} :
                \E ids \in {nextId..(nextId + Len(instance_parts) - 1)} :
                \E ob1 \in {AddObjects(objs, nextId, instance_parts)} :
                \E s1 \in {sel \cup ids} :
                \E st \in {UniqueRename(ob1, EmptyMap, s1, Cardinality(s1))} :
                    /\ calls < MaxCalls
                    /\ dirs' = dirs \cup {block_path}
                    /\ objs' = st.objs
                    /\ sel' = s1
                    /\ nextId' = nextId + Len(instance_parts)
                    /\ calls' = calls + 1
                    /\ trace' = trace \o
                         << [op |-> "mkdir", scope |-> f.scope, def |-> block,
                             dir |-> block_path],
                            [op |-> "insert", scope |-> f.scope, def |-> block,
                             parts |-> ids, child |-> calls + 1],
                            Renamed(calls + 1, st) >>
                    /\ stack' = SetTop([f EXCEPT !.pc = "wait", !.parts = ids,
                                          !.block_path = block_path])
                                \o <<Frame(calls + 1, block,
                                           ChildPath(f.path, block_path),
                                           <<block_name, block_name>>, s1)>>
           ELSE \E w \in {WithPlaceholder(f, objs, object, nextId)} :
                    /\ objs' = w.objs
                    /\ nextId' = nextId + 1
                    /\ stack' = SetTop(w.frame)
                    /\ trace' = Append(trace, w.event)
                    /\ UNCHANGED <<dirs, sel, calls>>
    /\ UNCHANGED <<doc, hostFails, arg, res,
                   version, interactive, units, name_map, userSel, scale, pc,
                   exc, msgs, pre>>

(* lines 556..563: the recursive call has returned *)
ES_BlockReturn ==
    /\ pc = "export" /\ Len(stack) >= 2 /\ Top.pc = "return"
    /\ LET block_done == Top.export_exists
           f == stack[Len(stack) - 1]
           object == OfClass(f, objs, blocks_export)[f.i]
           ob1 == DeleteObjects(objs, f.parts)
           below == SubSeq(stack, 1, Len(stack) - 2)
       IN  /\ sel' = sel \ f.parts
           /\ IF block_done
              THEN \E w \in {WithPlaceholder(f, ob1, object, nextId)} :
                       /\ objs' = w.objs
                       /\ nextId' = nextId + 1
                       /\ stack' = below \o <<w.frame>>
                       /\ trace' = Append(trace, w.event)
                       /\ dirs' = dirs
              ELSE /\ objs' = ob1
                   /\ dirs' = dirs \ {f.block_path}
                   /\ stack' = below \o <<[f EXCEPT !.i = @ + 1,
                                                   !.pc = "blocks"]>>
                   /\ trace' = Append(trace,
                                 [op |-> "rmdir", scope |-> f.scope,
                                  def |-> objs[object].block,
                                  dir |-> f.block_path])
                   /\ nextId' = nextId
    /\ UNCHANGED <<doc, hostFails, arg, res,
                   version, interactive, units, name_map, userSel, scale, pc,
                   exc, msgs, calls, pre>>

RestoredSelectionMutant(s, f) == s

\* rs.SelectObjects(selected), line 572
RestoredSelection(s, f) == s \cup ToSet(f.selected)

(* lines 564..573 *)
ES_Places ==
    /\ pc = "export" /\ Top.pc = "blocks"
    /\ Top.i > Len(OfClass(Top, objs, blocks_export))
    /\ LET f == Top
           phs == ToSet(f.placeholders)
           s1 == sel \cup phs
       IN  IF Len(f.placeholders) > 0
           THEN \E outcome \in Outcomes :
                  /\ trace' = Append(trace,
                                ExportModel(f, ".places", 0, objs, s1, outcome))
                  /\ IF outcome = "raise"
                     THEN objs' = objs /\ sel' = s1 /\ Raise("HostError")
                     ELSE /\ objs' = DeleteObjects(objs, phs)
                          /\ sel' = RestoredSelection(s1 \ phs, f)
                          /\ stack' = SetTop(Exported([f EXCEPT !.pc = "return"]))
                          /\ UNCHANGED <<pc, exc>>
           ELSE /\ sel' = RestoredSelection(sel, f)
                /\ stack' = SetTop([f EXCEPT !.pc = "return"])
                /\ UNCHANGED <<objs, trace, pc, exc>>
    /\ UNCHANGED <<doc, hostFails, arg, res,
                   version, interactive, units, dirs, name_map, userSel,
                   scale, msgs, nextId, calls, pre>>

(* RunCommand, line 623: ExportSelected has returned *)
RC_Exported ==
    /\ pc = "export" /\ Len(stack) = 1 /\ Top.pc = "return"
    /\ stack' = <<>>
    /\ pc' = "finally"
    /\ UNCHANGED <<doc, hostFails, arg, res,
                   version, interactive, units, objs, sel, dirs, name_map,
                   userSel, scale, exc, msgs, trace, nextId, calls, pre>>

(* RunCommand, lines 624..637 *)
RC_Finally ==
    /\ pc = "finally"
    /\ \E st \in {RevertRename(objs, name_map, SelectExport(objs, sel))} :
           /\ objs' = st.objs
           /\ name_map' = st.name_map
           /\ sel' = userSel
    /\ msgs' = IF exc = "none" THEN Append(msgs, "success") ELSE msgs
    /\ pc' = "done"
    /\ UNCHANGED <<doc, hostFails, arg, res,
                   version, interactive, units, dirs, userSel, scale, stack,
                   exc, trace, nextId, calls, pre>>

Next ==
    \/ RC_Unsupported
    \/ RC_Unsaved
    \/ RC_Cancelled
    \/ RC_Begin
    \/ RC_Rename
    \/ RC_Scale
    \/ ES_Enter
    \/ ES_Lights
    \/ ES_Meshes
    \/ ES_Detail
    \/ ES_Block
    \/ ES_BlockReturn
    \/ ES_Places
    \/ RC_Exported
    \/ RC_Finally

Spec == Init /\ [][Next]_vars

\* SpecFail: the runs in a session where the export command can also return
\* False (rs.Command's result, which ExportModel returns).
InitFail ==
    /\ version \in Versions
    /\ interactive \in BOOLEAN
    /\ units = 8
    /\ \E n \in 0..MaxObjs : \E k \in [1..n -> SceneKinds] :
          objs = [i \in 1..n |-> [k[i] EXCEPT !.xform = i]]
    /\ sel = {}
    /\ dirs = {}
    /\ name_map = EmptyMap
    /\ userSel = {}
    /\ scale = NoScale
    /\ stack = <<>>
    /\ pc = "start"
    /\ exc = "none"
    /\ msgs = <<>>
    /\ trace = <<>>
    /\ nextId = Len(objs) + 1
    /\ calls = 0
    /\ pre = [objs |-> objs, sel |-> sel, dirs |-> dirs]
    /\ doc \in {SavedDoc, UnsavedDoc}
    /\ hostFails = TRUE
    /\ arg = None
    /\ res = None

SpecFail == InitFail /\ [][Next]_vars

\* SpecCycle: the runs on documents whose block definitions hold instances
\* of themselves or of each other.  RunCommand is one sequential program:
\* whenever it has a next step it takes it.
CycleKinds ==
    { Obj(meshes_export, <<"A">>, None, 0),
      Obj(blocks_export, None, NameS, 0),
      Obj(blocks_export, None, NameP, 0),
      Obj(blocks_export, None, NameQ, 0),
      Obj(blocks_export, None, NameB, 0) }

CycleStaleDirs == { Join(Root, SafeObjectName(NameQ)) }

InitCycle ==
    /\ version \in {4, 7}
    /\ interactive \in BOOLEAN
    /\ units = 8
    /\ \E n \in 0..MaxObjs : \E k \in [1..n -> CycleKinds] :
          objs = [i \in 1..n |-> [k[i] EXCEPT !.xform = i]]
    /\ sel = {}
    /\ dirs \in SUBSET CycleStaleDirs
    /\ name_map = EmptyMap
    /\ userSel = {}
    /\ scale = NoScale
    /\ stack = <<>>
    /\ pc = "start"
    /\ exc = "none"
    /\ msgs = <<>>
    /\ trace = <<>>
    /\ nextId = Len(objs) + 1
    /\ calls = 0
    /\ pre = [objs |-> objs, sel |-> sel, dirs |-> dirs]
    /\ doc \in {SavedDoc, UnsavedDoc}
    /\ doc = UnsavedDoc => dirs = {}
    /\ hostFails = FALSE
    /\ arg = None
    /\ res = None

SpecCycle == InitCycle /\ [][Next]_vars /\ WF_vars(Next)

\* SpecNames: the runs on scenes of lights of every kind and of block
\* instances, named and unnamed.
NameKinds ==
    {Light(kind) : kind \in LightKinds}
    \cup { Obj(blocks_export, <<"A", "=">>, NameN, 0),
           Obj(blocks_export, None, NameB, 0) }

InitNames ==
    /\ version \in {4, 7}
    /\ interactive \in BOOLEAN
    /\ units = 8
    /\ \E n \in 0..MaxObjs : \E k \in [1..n -> NameKinds] :
          objs = [i \in 1..n |-> [k[i] EXCEPT !.xform = i]]
    /\ sel = {}
    /\ dirs = {}
    /\ name_map = EmptyMap
    /\ userSel = {}
    /\ scale = NoScale
    /\ stack = <<>>
    /\ pc = "start"
    /\ exc = "none"
    /\ msgs = <<>>
    /\ trace = <<>>
    /\ nextId = Len(objs) + 1
    /\ calls = 0
    /\ pre = [objs |-> objs, sel |-> sel, dirs |-> dirs]
    /\ doc \in {SavedDoc, UnsavedDoc}
    /\ hostFails = FALSE
    /\ arg = None
    /\ res = None

SpecNames == InitNames /\ [][Next]_vars

-----------------------------------------------------------------------------
(* Claims on UniqueRename, RevertRename and ModelScale. *)

\* C7: UniqueRename on a set of selected objects followed by RevertRename
\* with the same name map leaves every object with exactly the name it had
\* before UniqueRename; an object without a name has none again.
C7_RenameRoundTrip ==
    pc = "rn_reverted" =>
        \A id \in DOMAIN pre.objs :
            id \in DOMAIN objs /\ objs[id].name = pre.objs[id].name

C7_Witness ==
    /\ pc = "rn_reverted"
    /\ \E a, b, c \in DOMAIN pre.objs :
          /\ a # b
          /\ pre.objs[a].name = None
          /\ pre.objs[b].name = pre.objs[c].name /\ b # c
          /\ pre.objs[b].name = <<"A", "=">>
    /\ name_map = EmptyMap

\* C8: after one UniqueRename on an empty name map the objects' names are
\* pairwise distinct and the map has exactly one key per object, the key
\* being the object's new name and its value the object's old name.
C8_UniqueNames ==
    pc = "rn_renamed" =>
        /\ \A a, b \in DOMAIN objs : a # b => objs[a].name # objs[b].name
        /\ Cardinality(DOMAIN name_map) = Cardinality(DOMAIN objs)
        /\ \A a \in DOMAIN objs :
              /\ objs[a].name \in DOMAIN name_map
              /\ name_map[objs[a].name] = pre.objs[a].name

C8_Witness ==
    /\ pc = "rn_renamed"
    /\ Len(pre.objs) = 4
    /\ pre.objs[1].name = None /\ pre.objs[2].name = None
    /\ pre.objs[3].name = <<"A">> /\ pre.objs[4].name = <<"A">>
    /\ objs[2].name = ObjectStr \o <<"_", "1">>
    /\ objs[4].name = <<"A", "_", "3">>

C8_WitnessSuffixed ==
    /\ pc = "rn_renamed"
    /\ pre.objs[1].name = ObjectStr \o <<"_", "1">>
    /\ Len(pre.objs) >= 2 /\ pre.objs[2].name = None
    /\ objs[2].name = ObjectStr \o <<"_", "2">>

\* C9: ModelScale returns without an error for every unit-system code, a
\* positive factor for the codes 0..25, 1.0 for every other code, and
\* exactly 1.0 for code 4.
C9_ScaleTotal ==
    pc = "sc_done" =>
        /\ exc = "none" /\ scale.ok
        /\ units \in 0..25 => Positive(scale.val)
        /\ units \notin 0..25 => IsOne(scale.val)
        /\ units = 4 => IsOne(scale.val)

\* Every code but 12 is as C9 says.
C9_ScaleTotalBut12 ==
    (pc = "sc_done" /\ units # 12) =>
        /\ exc = "none" /\ scale.ok
        /\ units \in 0..25 => Positive(scale.val)
        /\ units \notin 0..25 => IsOne(scale.val)
        /\ units = 4 => IsOne(scale.val)

\* C15 as stated: when UniqueRename appends _N to a name, N is the smallest
\* non-negative integer for which name_N is not a key of the name map.
C15_SmallestSuffix ==
    \A i \in 1..Len(trace) :
        (trace[i].op = "rename" /\ trace[i].suffixed) =>
            /\ Suffixed(trace[i].base, trace[i].suffix) \notin trace[i].keys
            /\ \A n \in 0..(trace[i].suffix - 1) :
                  Suffixed(trace[i].base, n) \in trace[i].keys

\* C15: when UniqueRename appends _N to a name, N is the smallest integer
\* not below the number of keys the name map has at that moment for which
\* name_N is not a key of the name map.
C15_SmallestSuffixFromSize ==
    \A i \in 1..Len(trace) :
        (trace[i].op = "rename" /\ trace[i].suffixed) =>
            /\ trace[i].suffix >= Cardinality(trace[i].keys)
            /\ trace[i].name = Suffixed(trace[i].base, trace[i].suffix)
            /\ trace[i].name \notin trace[i].keys
            /\ \A n \in Cardinality(trace[i].keys)..(trace[i].suffix - 1) :
                  Suffixed(trace[i].base, n) \in trace[i].keys

\* A suffix at the size of the map with smaller ones free, and a suffix
\* past the size of the map because the name at the size is a key.
C15_Witness ==
    /\ pc = "rn_renamed"
    /\ Len(trace) = 3
    /\ trace[1].old = ObjectStr \o <<"_", "1">> /\ ~trace[1].suffixed
    /\ trace[2].old = None /\ trace[2].suffixed /\ trace[2].suffix = 2
    /\ trace[3].old = <<"A">> /\ ~trace[3].suffixed

-----------------------------------------------------------------------------
(* Claims on a run of RunCommand. *)

BlockNames == {NameB, NameN, NameE, NameS, NameP, NameQ}

Events(op) == {i \in 1..Len(trace) : trace[i].op = op}

\* The definitions all of whose constituents are of no exportable type.
EmptyBlocks ==
    {b \in BlockNames :
        \A j \in 1..Len(BlockDef(b)) : ~IsClass(BlockDef(b)[j], export_select)}

\* C1: in one run, the export calls for a block definition all come from
\* one activation of ExportSelected, and once an export call for a
\* definition was made, the definition is never inserted (and exploded and
\* exported) again: later instances only get a placeholder.
C1_ExportedOnce ==
    /\ \A b \in BlockNames :
          Cardinality({trace[i].scope : i \in {j \in Events("export") :
                                                  trace[j].def = b}}) <= 1
    /\ \A i \in Events("export") : \A j \in Events("insert") :
          trace[i].def = trace[j].def => j < i

C1_Witness ==
    /\ pc = "done" /\ exc = "none"
    /\ Cardinality({j \in Events("insert") : trace[j].def = NameN}) = 1
    /\ \E i, j \in Events("place") :
          /\ trace[i].def = NameN /\ trace[j].def = NameN
          /\ trace[i].scope = 1 /\ trace[j].scope > 1
    /\ \E i \in Events("export") : trace[i].def = NameN

\* The safe name of each block definition of the document.
SafeBlockName == [b \in BlockNames |-> SafeObjectName(b)]

IsBlockPlaceholder(p, o, sc) ==
    /\ p.geom = [of |-> o.xform, by |-> sc]
    /\ p.name = SafeBlockName[o.block] \o <<"=">> \o o.name

\* C2: in every .places export, each block instance of the scope whose
\* definition had an export call before has exactly one placeholder among
\* the exported objects, with the instance's own transform and name, and
\* every exported object is the placeholder of an instance of the scope.
C2_OnePlaceholderEach ==
    \A j \in Events("export") :
        trace[j].file.kind = ".places" =>
            LET e == trace[j]
                insts == {id \in DOMAIN e.scopeSel :
                             IsClass(e.scopeSel[id], blocks_export)}
            IN  /\ \A id \in insts :
                      (\E i \in Events("export") :
                          i < j /\ trace[i].def = e.scopeSel[id].block)
                      => Cardinality({p \in DOMAIN e.sel :
                            IsBlockPlaceholder(e.sel[p], e.scopeSel[id],
                                               scale.val)}) = 1
                /\ \A p \in DOMAIN e.sel : \E id \in insts :
                      IsBlockPlaceholder(e.sel[p], e.scopeSel[id], scale.val)
                /\ Cardinality(DOMAIN e.sel) <= Cardinality(insts)

C2_Witness ==
    /\ pc = "done" /\ exc = "none"
    /\ Len(pre.objs) = 2
    /\ pre.objs[1].block = NameN /\ pre.objs[2].block = NameN
    /\ Cardinality({j \in Events("insert") : trace[j].def = NameN}) = 1
    /\ Cardinality({j \in Events("mkdir") : TRUE}) = 1
    /\ \E j \in Events("export") :
          /\ trace[j].file.kind = ".places"
          /\ Cardinality(DOMAIN trace[j].sel) = 2

\* C3: after the run, a definition whose constituents are all of
\* non-exportable types has no directory left that the run made for it, and
\* no placeholder was made for an instance of it.
C3_EmptyBlockLeavesNothing ==
    pc = "done" =>
        \A b \in EmptyBlocks :
            /\ Cardinality({j \in Events("mkdir") : trace[j].def = b})
                 = Cardinality({j \in Events("rmdir") : trace[j].def = b})
            /\ \A j \in Events("place") : trace[j].def # b

\* C4: when RunCommand is left, every object of the scene of before the
\* run has the name it had before the run.
C4_NamesRestored ==
    pc = "done" =>
        \A id \in DOMAIN pre.objs :
            id \in DOMAIN objs /\ objs[id].name = pre.objs[id].name

\* C5: when RunCommand is left, the objects of the scene are those of
\* before the run: nothing the run created remains.
C5_NoTransientGeometry ==
    pc = "done" => DOMAIN objs = DOMAIN pre.objs

\* C6: when an activation of ExportSelected returns, the selected objects
\* are those that were selected when it was entered.
C6_SelectionRestored ==
    \A k \in 1..Len(stack) :
        stack[k].pc = "return" => sel = stack[k].sel0

C6_Witness ==
    /\ Len(stack) = 1 /\ Top.pc = "return"
    /\ \E a, b \in Top.sel0 :
          /\ IsClass(objs[a], lights_export)
          /\ IsClass(objs[b], blocks_export)
    /\ \E i, j \in Events("export") :
          trace[i].file.kind = ".lights" /\ trace[j].file.kind = ".places"

C6_WitnessNested ==
    /\ Len(stack) = 3 /\ Top.pc = "return"
    /\ sel # {}
    /\ \E i \in Events("export") : trace[i].file.kind = ".meshes0"

\* C10: with a host version other than 5, 6 and 7 the run only reports the
\* abort: the scene, the selection and the directories stay as they were
\* and no host call is made.
C10_UnsupportedVersionAborts ==
    version \notin {5, 6, 7} =>
        /\ objs = pre.objs /\ sel = pre.sel /\ dirs = pre.dirs
        /\ trace = <<>> /\ stack = <<>> /\ exc = "none"
        /\ pc \in {"start", "done"}
        /\ pc = "done" =>
              msgs[Len(msgs)] = "unsupported version -> abort"

C10_Witness ==
    /\ pc = "done" /\ version = 8
    /\ sel # {} /\ Len(pre.objs) = 2
    /\ pre.objs[1].name = None
    /\ IsClass(pre.objs[1], lights_export)

\* C11: when the active document was never saved (it has no name or no
\* path), a run under a supported version ends without an exception and with
\* a status message after the preamble, and it leaves the scene and the
\* selection as they were and makes no host call.
C11_UnsavedAborts ==
    (version \in {5, 6, 7} /\ (doc.Name = None \/ doc.Path = None)) =>
        /\ objs = pre.objs /\ sel = pre.sel /\ trace = <<>>
        /\ exc = "none"
        /\ pc = "done" => Len(msgs) > Len(Preamble(interactive))

\* C12: an activation of ExportSelected returns True only if an export call
\* of its scope succeeded: a pass whose export call reported failure does
\* not make the scope count as exported (and so a block whose exports all
\* failed gets no placeholder from its parent).
C12_FailurePropagated ==
    \A k \in 1..Len(stack) :
        (stack[k].pc = "return" /\ stack[k].export_exists) =>
            \E i \in Events("export") :
                trace[i].scope = stack[k].scope /\ trace[i].ok

-----------------------------------------------------------------------------
(* Claims on BasisFromDirection. *)

\* The same unit vector: the coordinates have the same signs and, scaled
\* to a common length, the same squares.
SameUnit(a, b) ==
    \A i \in 1..3 :
        /\ a.v[i] * b.v[i] >= 0
        /\ a.v[i] * a.v[i] * b.n2 = b.v[i] * b.v[i] * a.n2

\* C20: for every non-zero direction BasisFromDirection finds an axis whose
\* dot product with the unit direction is in (-0.5, 0.5], so it does not
\* return the plain unit basis for want of one, and the third vector it
\* returns is the unit direction.
C20_AxisFound ==
    pc = "bf_done" =>
        /\ res.found
        /\ SameUnit(res.basis[3], [v |-> arg, n2 |-> Norm2(arg)])

\* When an axis is found the basis is as the claim says: its third vector
\* is the unit direction and the first two are orthogonal to it.
C20_BasisWhenFound ==
    (pc = "bf_done" /\ res.found) =>
        /\ SameUnit(res.basis[3], [v |-> arg, n2 |-> Norm2(arg)])
        /\ \A k \in 1..2 :
              res.basis[k].v[1] * arg[1] + res.basis[k].v[2] * arg[2]
                + res.basis[k].v[3] * arg[3] = 0

-----------------------------------------------------------------------------
(* Claims on the passes of ExportSelected. *)

LightTypes == {256}
MeshTypes == {32}
DetailTypes == {8, 16, 262144, 1073741824}
BlockTypes == {4096}

\* The objects of the given types in a snapshot of selected objects.
Having(snap, types) == {id \in DOMAIN snap : snap[id].type \in types}

\* The selection of an activation, as the scene has it now.
ScopeSel(f) == Snapshot(objs, ToSet(f.selected))

ExportsOf(scope, kind) ==
    {i \in Events("export") :
        trace[i].scope = scope /\ trace[i].file.kind = kind}

After(p) ==
    CASE p = "lights" -> {"meshes", "detail", "blocks", "wait", "return"}
      [] p = "meshes" -> {"detail", "blocks", "wait", "return"}
      [] p = "detail" -> {"blocks", "wait", "return"}
      [] p = "blocks" -> {"return"}

\* C13: an export call of a scope for .lights, .meshes, .meshes0/1/2 or
\* .places is made only if the scope's selection holds a light, a mesh, a
\* detail surface or a block instance respectively, at most once per file,
\* .meshesN at detail level N; and once the lights, meshes or detail pass of
\* a scope is over, the scope holding a light, a mesh or a detail surface
\* has had its .lights, its .meshes, or all three of its .meshes0, .meshes1
\* and .meshes2 export calls.
C13_PassesExportTheirClass ==
    /\ \A i \in Events("export") :
          LET e == trace[i]
              k == e.file.kind
          IN  /\ k = ".lights" => Having(e.scopeSel, LightTypes) # {}
              /\ k = ".meshes" => Having(e.scopeSel, MeshTypes) # {}
              /\ k = ".meshes0" =>
                    Having(e.scopeSel, DetailTypes) # {} /\ e.detail = 0
              /\ k = ".meshes1" =>
                    Having(e.scopeSel, DetailTypes) # {} /\ e.detail = 1
              /\ k = ".meshes2" =>
                    Having(e.scopeSel, DetailTypes) # {} /\ e.detail = 2
              /\ k = ".places" => Having(e.scopeSel, BlockTypes) # {}
              /\ k \in {".lights", ".meshes", ".meshes0", ".meshes1",
                         ".meshes2", ".places"}
              /\ Cardinality(ExportsOf(e.scope, k)) = 1
    /\ \A n \in 1..Len(stack) :
          LET f == stack[n]
              made(k) == ExportsOf(f.scope, k) # {}
          IN  /\ (f.pc \in After("lights")
                   /\ Having(ScopeSel(f), LightTypes) # {}) => made(".lights")
              /\ (f.pc \in After("meshes")
                   /\ Having(ScopeSel(f), MeshTypes) # {}) => made(".meshes")
              /\ (f.pc \in After("detail")
                   /\ Having(ScopeSel(f), DetailTypes) # {}) =>
                      made(".meshes0") /\ made(".meshes1") /\ made(".meshes2")

C13_Witness ==
    /\ Len(stack) = 1 /\ Top.pc = "return"
    /\ Having(ScopeSel(Top), LightTypes) # {}
    /\ Having(ScopeSel(Top), DetailTypes) # {}
    /\ Having(ScopeSel(Top), MeshTypes) = {}
    /\ ExportsOf(1, ".lights") # {} /\ ExportsOf(1, ".meshes2") # {}
    /\ ExportsOf(1, ".meshes") = {} /\ ExportsOf(1, ".places") = {}

-----------------------------------------------------------------------------
(* Claims on SafeFileName and SafeObjectName. *)

Unsafe == {"<", ">", ":", "\"", "/", "\\", "|", "?", "*"}

\* C14: what SafeFileName returns has none of the characters
\* < > : " / \ | ? * and SafeFileName returns it unchanged when applied to
\* it again; what SafeObjectName returns has none of these characters and
\* no = either.
C14_SafeNames ==
    /\ pc \in {"sn_once", "sn_twice"} =>
          /\ res.file # None =>
                \A i \in 1..Len(res.file) : res.file[i] \notin Unsafe
          /\ \A i \in 1..Len(res.object) :
                res.object[i] \notin Unsafe \cup {"="}
    /\ pc = "sn_twice" => res.again = res.file

C14_Witness ==
    /\ pc = "sn_twice"
    /\ arg = <<"<", "=", "<">>
    /\ res.file = <<"=">> /\ res.object = <<"-">> /\ res.again = <<"=">>

Rank(kind) ==
    CASE kind = ".lights" -> 1
      [] kind = ".meshes" -> 2
      [] kind = ".meshes0" -> 3
      [] kind = ".meshes1" -> 4
      [] kind = ".meshes2" -> 5
      [] kind = ".places" -> 7

\* C16: the export calls of one scope come in the order .lights, .meshes,
\* .meshes0, .meshes1, .meshes2, .places; every block the scope inserts
\* and every export call of the recursive activation for it come after
\* the scope's .lights, .meshes and .meshesN calls and before its .places
\* call.
C16_PassOrder ==
    /\ \A i, j \in Events("export") :
          (i < j /\ trace[i].scope = trace[j].scope) =>
              Rank(trace[i].file.kind) < Rank(trace[j].file.kind)
    /\ \A b \in Events("insert") : \A i \in Events("export") :
          /\ trace[i].scope = trace[b].scope =>
                IF trace[i].file.kind = ".places" THEN b < i ELSE i < b
          /\ trace[i].scope = trace[b].child =>
                /\ b < i
                /\ \A j \in Events("export") :
                      trace[j].scope = trace[b].scope =>
                          IF trace[j].file.kind = ".places" THEN i < j
                          ELSE j < i

\* The export call of the given file of the given scope at index i.
IsExport(i, scope, kind) ==
    /\ trace[i].op = "export" /\ trace[i].scope = scope
    /\ trace[i].file.kind = kind

\* A run with the .lights export of the scene, then a block inserted, its
\* .meshes export, the .meshes0 and .meshes2 exports of the block inside
\* it, its .places export and last the .places export of the scene.
C16_Witness ==
    /\ pc = "done" /\ exc = "none"
    /\ \E l \in 1..Len(trace) :
        /\ IsExport(l, 1, ".lights")
        /\ \E b \in (l + 1)..Len(trace) :
            /\ trace[b].op = "insert" /\ trace[b].scope = 1
            /\ trace[b].child = 2
            /\ \E m \in (b + 1)..Len(trace) :
                /\ IsExport(m, 2, ".meshes")
                /\ \E d0 \in (m + 1)..Len(trace) :
                    /\ IsExport(d0, 3, ".meshes0")
                    /\ \E d2 \in (d0 + 1)..Len(trace) :
                        /\ IsExport(d2, 3, ".meshes2")
                        /\ \E p2 \in (d2 + 1)..Len(trace) :
                            /\ IsExport(p2, 2, ".places")
                            /\ \E p1 \in (p2 + 1)..Len(trace) :
                                  IsExport(p1, 1, ".places")

IsLightPlaceholder(p, o, sc) ==
    /\ p.type = 32
    /\ p.geom = [of |-> o.xform, by |-> sc]
    /\ p.name = <<"P", "o", "i", "n", "t", "L", "i", "g", "h", "t", "=">>
                   \o o.name

\* C17: what is selected when an export call is made: for .lights the
\* lights of the scope's selection and one placeholder mesh per light, for
\* .meshes its meshes, for .meshes0/1/2 its detail surfaces, for .places
\* placeholder meshes of its block instances and nothing of the scope's
\* selection; nothing else.
C17_PassesSelectTheirClass ==
    \A i \in Events("export") :
        LET e == trace[i]
            k == e.file.kind
            own == DOMAIN e.sel \cap DOMAIN e.scopeSel
            new == DOMAIN e.sel \ DOMAIN e.scopeSel
            lights == Having(e.scopeSel, LightTypes)
            insts == Having(e.scopeSel, BlockTypes)
        IN  /\ k = ".lights" =>
                  /\ own = lights
                  /\ Cardinality(new) = Cardinality(lights)
                  /\ \A l \in lights : \E p \in new :
                        IsLightPlaceholder(e.sel[p], e.scopeSel[l], scale.val)
            /\ k = ".meshes" =>
                  DOMAIN e.sel = Having(e.scopeSel, MeshTypes)
            /\ k \in {".meshes0", ".meshes1", ".meshes2"} =>
                  DOMAIN e.sel = Having(e.scopeSel, DetailTypes)
            /\ k = ".places" =>
                  /\ own = {}
                  /\ \A p \in new :
                        /\ e.sel[p].type = 32
                        /\ \E b \in insts :
                              IsBlockPlaceholder(e.sel[p], e.scopeSel[b],
                                                 scale.val)

\* A light and its placeholder exported together, and after it the
\* .places exports of a block exploded inside an exploded block and of the
\* scene.
C17_Witness ==
    /\ pc = "done" /\ exc = "none"
    /\ \E i, j, k \in Events("export") :
          /\ i < j /\ j < k
          /\ trace[i].scope = 1 /\ trace[i].file.kind = ".lights"
          /\ Cardinality(DOMAIN trace[i].sel) = 2
          /\ trace[j].scope = 2 /\ trace[j].file.kind = ".places"
          /\ Cardinality(DOMAIN trace[j].sel) = 1
          /\ trace[k].scope = 1 /\ trace[k].file.kind = ".places"
          /\ Cardinality(DOMAIN trace[k].sel) = 1

\* A curve the user selected is in the scope and in no export.
C17_WitnessCurve ==
    /\ pc = "done" /\ exc = "none"
    /\ \E i \in Events("export") :
          /\ trace[i].scope = 1 /\ trace[i].file.kind = ".places"
          /\ Having(trace[i].scopeSel, {4}) # {}
          /\ Cardinality(DOMAIN trace[i].sel) = 1
          /\ \E j \in Events("insert") :
                j < i /\ Cardinality(trace[j].parts) = 2

\* C18: an activation of ExportSelected returns True exactly if an export
\* call was made for its scope, which is exactly if its selection holds a
\* light, a mesh or a detail surface or its .places export was made.
C18_ReturnsWhetherExported ==
    \A n \in 1..Len(stack) :
        stack[n].pc = "return" =>
            /\ stack[n].export_exists <=>
                  (\E i \in Events("export") : trace[i].scope = stack[n].scope)
            /\ stack[n].export_exists <=>
                  \/ Having(ScopeSel(stack[n]),
                            LightTypes \cup MeshTypes \cup DetailTypes) # {}
                  \/ ExportsOf(stack[n].scope, ".places") # {}

\* The scene returns True for its .places export alone, after a block of
\* curves only returned False.
C18_Witness ==
    /\ Len(stack) = 1 /\ Top.pc = "return" /\ Top.export_exists
    /\ Having(ScopeSel(Top), LightTypes \cup MeshTypes \cup DetailTypes) = {}
    /\ ExportsOf(1, ".places") # {}
    /\ \E i \in Events("rmdir") : trace[i].def = NameE
    /\ \A i \in Events("export") : trace[i].def # NameE

\* A block of curves only returns False.
C18_WitnessFalse ==
    /\ Len(stack) = 2 /\ Top.pc = "return" /\ ~Top.export_exists
    /\ Top.def = NameE /\ Top.selected # <<>>

\* C19: every directory the run makes for a block is the child of the
\* export root named by the block's safe name, at whatever depth the block
\* is met, every export call for a block writes to
\* root/safe name/safe name + kind, and the export root holds nothing but
\* such directories.
C19_BlockDirsUnderRoot ==
    /\ \A i \in Events("mkdir") :
          trace[i].dir = <<SafeBlockName[trace[i].def]>>
    /\ \A i \in Events("export") :
          trace[i].def # None =>
              trace[i].file.path \o trace[i].file.name =
                  <<SafeBlockName[trace[i].def], SafeBlockName[trace[i].def]>>
    /\ \A d \in dirs : \E b \in BlockNames : d = <<SafeBlockName[b]>>

\* A definition met first inside another block and then in the scene: its
\* directory is made by the inner scope, and both scopes place it.
C19_Witness ==
    /\ pc = "done" /\ exc = "none"
    /\ \E i \in Events("mkdir") : trace[i].def = NameN /\ trace[i].scope = 2
    /\ \E i \in Events("export") : trace[i].def = NameN /\ trace[i].scope = 3
    /\ \E i, j \in Events("place") :
          /\ trace[i].def = NameN /\ trace[i].scope = 2
          /\ trace[j].def = NameN /\ trace[j].scope = 1
    /\ dirs = {<<NameB>>, <<NameN>>}

\* The events that record the making of a placeholder mesh: by LightLocation
\* in the lights pass, by BlockLocation in the blocks pass.
Placed == Events("light") \cup Events("place")

\* The export calls that had object p among the selected objects.
ExportsWith(p) == {j \in Events("export") : p \in DOMAIN trace[j].sel}

PlaceholderKind(i) == IF trace[i].op = "light" THEN ".lights" ELSE ".places"

\* The activation of ExportSelected numbered scope is at its return
\* statement or has returned.
Returned(scope) ==
    \A n \in 1..Len(stack) : stack[n].scope = scope => stack[n].pc = "return"

\* C21: on a run without failure, a placeholder mesh is among the objects of
\* no export call but the .lights (made by LightLocation) or .places (made
\* by BlockLocation) call of the activation that made it, of at most one
\* such call, made after the placeholder; and once that activation is at
\* its return the call has been made and the placeholder is deleted.
C21_PlaceholderExportedOnceThenDeleted ==
    exc = "none" =>
        \A i \in Placed :
            \E ex \in {ExportsWith(trace[i].ph)} :
                /\ \A j \in ex :
                      /\ j > i
                      /\ trace[j].scope = trace[i].scope
                      /\ trace[j].file.kind = PlaceholderKind(i)
                /\ Cardinality(ex) <= 1
                /\ Returned(trace[i].scope) =>
                      /\ Cardinality(ex) = 1
                      /\ trace[i].ph \notin DOMAIN objs

\* A run that ends without failure after a light placeholder, a block
\* placeholder of the scene and a block placeholder made inside a block.
C21_Witness ==
    /\ pc = "done" /\ exc = "none"
    /\ \E i \in Events("light") : trace[i].scope = 1
    /\ \E i \in Events("place") :
          /\ trace[i].scope = 1
          /\ \E j \in Events("place") : trace[j].scope = 2 /\ j < i
    /\ \A i \in Placed : Cardinality(ExportsWith(trace[i].ph)) = 1

\* No definition has two activations of ExportSelected in progress at once.
C22_NoReentry ==
    \A m, n \in 1..Len(stack) : m < n => stack[m].def # stack[n].def

\* C22: every run ends, also on definitions that hold instances of
\* themselves or of each other, and no definition has two activations of
\* ExportSelected in progress at once: the instance of a definition whose
\* export is in progress finds the definition's directory and is not
\* recursed into.
C22_Terminates == [](C22_NoReentry) /\ <>(pc = "done")

\* A run that ended after S met an instance of S in its own activation and
\* Q met an instance of P in an activation nested in P's: both were placed
\* by the activation that met them, with no activation of their own.
C22_Witness ==
    /\ pc = "done" /\ exc = "none"
    /\ \E i \in Events("insert") :
          /\ trace[i].def = NameS
          /\ \E j \in Events("place") :
                trace[j].def = NameS /\ trace[j].scope = trace[i].child
          /\ Cardinality({k \in Events("insert") : trace[k].def = NameS}) = 1
    /\ \E i \in Events("insert") :
          /\ trace[i].def = NameP
          /\ \E j \in Events("insert") :
                /\ trace[j].def = NameQ /\ trace[j].scope = trace[i].child
                /\ \E k \in Events("place") :
                      trace[k].def = NameP /\ trace[k].scope = trace[j].child

\* C23: whenever a placeholder has been made for a block instance, an export
\* call of this run has written constituents of the instance's own
\* definition, to root/safe name/safe name + kind, before.
C23_PlacedDefinitionExported ==
    \A i \in Events("place") :
        \E j \in Events("export") :
            /\ j < i
            /\ trace[j].def = trace[i].def
            /\ trace[j].file.path \o trace[j].file.name =
                  <<SafeBlockName[trace[i].def], SafeBlockName[trace[i].def]>>

\* The positions of "=" in a name.
EqualSigns(n) == {k \in 1..Len(n) : n[k] = "="}

\* A name without the characters a file name must not have, and with "-"
\* for every "=".
Sanitized(n) ==
    LET kept == SelectSeq(n, LAMBDA c : c \notin Unsafe)
    IN  [k \in 1..Len(kept) |-> IF kept[k] = "=" THEN "-" ELSE kept[k]]

LightTypeNames ==
    { <<"U", "n", "k", "n", "o", "w", "n", "L", "i", "g", "h", "t">>,
      <<"P", "o", "i", "n", "t", "L", "i", "g", "h", "t">>,
      <<"D", "i", "r", "e", "c", "t", "i", "o", "n", "a", "l",
        "L", "i", "g", "h", "t">>,
      <<"S", "p", "o", "t", "L", "i", "g", "h", "t">>,
      <<"R", "e", "c", "t", "a", "n", "g", "u", "l", "a", "r",
        "L", "i", "g", "h", "t">>,
      <<"L", "i", "n", "e", "a", "r", "L", "i", "g", "h", "t">> }

\* The label a placeholder made at event i is to have before the "=".
IsLabel(i, label) ==
    IF trace[i].op = "light" THEN label \in LightTypeNames
    ELSE label = Sanitized(trace[i].def)

\* C24: the name of every placeholder made by LightLocation or BlockLocation
\* has exactly one "=", after the light type or the sanitized block name,
\* and what follows the "=" is not empty, has no character a safe name must
\* not have, and is the name that a call of UniqueRename gave the light or
\* the instance before every export call of the activation that made the
\* placeholder.
C24_PlaceholderNames ==
    \A i \in Placed :
        \E n \in {trace[i].name} :
            /\ Cardinality(EqualSigns(n)) = 1
            /\ \E k \in EqualSigns(n) :
               \E given \in {SubSeq(n, k + 1, Len(n))} :
                  /\ IsLabel(i, SubSeq(n, 1, k - 1))
                  /\ given # <<>> /\ given # None
                  /\ \A c \in 1..Len(given) : given[c] \notin Unsafe
                  /\ \E r \in Events("renamed") :
                        /\ r < i
                        /\ trace[r].scope = trace[i].scope
                        /\ trace[i].inst \in DOMAIN trace[r].names
                        /\ trace[r].names[trace[i].inst] = given
                        /\ \A j \in Events("export") :
                              trace[j].scope = trace[i].scope => r < j

\* A run that ended after the placeholders of an unnamed spot light and of
\* an instance named "A=" of the block N-.
C24_Witness ==
    /\ pc = "done" /\ exc = "none"
    /\ \E i \in Events("light") :
          trace[i].name = <<"S", "p", "o", "t", "L", "i", "g", "h", "t",
                            "=", "L", "i", "g", "h", "t", "_", "0">>
    /\ \E i \in Events("place") :
          trace[i].name = <<"N", "-", "=", "A", "-">>

\* A run that ended after the placeholders of a light of no known kind and
\* of an instance met inside a block, unnamed in the block's definition.
C24_WitnessNested ==
    /\ pc = "done" /\ exc = "none"
    /\ \E i \in Events("light") :
          SubSeq(trace[i].name, 1, 7) = <<"U", "n", "k", "n", "o", "w", "n">>
    /\ \E i \in Events("place") :
          /\ trace[i].scope = 2
          /\ trace[i].name = <<"N", "-", "=", "O", "b", "j", "e", "c", "t",
                               "_", "1">>

====
